---------------------------- MODULE Spec2Model ----------------------------
(***************************************************************************)
(* A model of booklit's diagnostic rendering (errors.go): the template     *)
(* registry built by init, the source-line reader lineInQuestion, the      *)
(* plain annotation AnnotateLocation, the hypertext annotation             *)
(* AnnotatedHTML, the five diagnostic kinds' PrettyPrint / PrettyHTML and   *)
(* the page responder ErrorPage.                                           *)
(*                                                                         *)
(* Strings are sequences of one-character strings.  A file is its bytes    *)
(* and the error its last read ends with; files hold no carriage return.   *)
(* The sink handed to a renderer never fails a write.                      *)
(***************************************************************************)
EXTENDS Integers, Sequences, FiniteSets, TLC

\* ------------------------------------------------------------------ bounds
MaxLine == 3
MaxCol == 2
MaxLength == 1
MaxFileLen == 4
MaxDefined == 2
\* the size of the bufio.Reader's buffer, scaled down
BufSize == 2

\* ------------------------------------------------------------- characters
NL == "\n"
ESC == "ESC"
SP == " "
PCT == "%"

RECURSIVE Repeat(_, _)
\* strings.Repeat for a one-character string; a negative count panics in Go
\* and is never requested here (see the callers).
Repeat(c, n) == IF n <= 0 THEN <<>> ELSE <<c>> \o Repeat(c, n - 1)

Digit(d) == CASE d = 0 -> "0" [] d = 1 -> "1" [] d = 2 -> "2" [] d = 3 -> "3"
              [] d = 4 -> "4" [] d = 5 -> "5" [] d = 6 -> "6" [] d = 7 -> "7"
              [] d = 8 -> "8" [] d = 9 -> "9"

RECURSIVE Itoa(_)
\* %d of a non-negative int
Itoa(n) == IF n < 10 THEN <<Digit(n)>> ELSE Itoa(n \div 10) \o <<Digit(n % 10)>>

\* "% 4d": a space where the sign would be, right-aligned in four columns
Lineno4(n) ==
    LET s == <<SP>> \o Itoa(n)
    IN  Repeat(SP, 4 - Len(s)) \o s

\* Go's s[lo:hi]
Slice(s, lo, hi) == SubSeq(s, lo + 1, hi)

RECURSIVE SeqsUpTo(_, _)
SeqsUpTo(S, n) ==
    IF n = 0 THEN {<<>>}
    ELSE LET shorter == SeqsUpTo(S, n - 1)
         IN  shorter \cup {Append(s, c) : s \in {t \in shorter : Len(t) = n - 1}, c \in S}

\* ------------------------------------------------------------ file system
NoFile == [exists |-> FALSE, data |-> <<>>, end |-> "ENOENT"]
File(d, e) == [exists |-> TRUE, data |-> d, end |-> e]

\* every readable file: its bytes, and io.EOF or a read failure at their end
Contents ==
    {File(d, "EOF") : d \in SeqsUpTo({"a", NL}, MaxFileLen)}
        \cup {File(d, "EIO") : d \in SeqsUpTo({"a", NL}, 2)}

FileStates == Contents \cup {NoFile}

Paths == {<<"f">>, <<PCT, "f">>}

FileSystems ==
    {[p \in Paths |-> f] : f \in FileStates}
        \cup [Paths -> {NoFile, File(<<"a", NL, NL, "a">>, "EOF")}]

\* --------------------------------------------------------------- locations
Loc(p, l, c, n) == [FilePath |-> p, Line |-> l, Col |-> c, Length |-> n]

Locations ==
    {Loc(p, l, c, n) : p \in Paths, l \in 0..MaxLine, c \in 0..MaxCol, n \in 0..MaxLength}

\* ------------------------------------------------------------ bufio.Reader
FirstNL(s) ==
    IF \E i \in 1..Len(s) : s[i] = NL
    THEN CHOOSE i \in 1..Len(s) : s[i] = NL /\ \A j \in 1..(i - 1) : s[j] # NL
    ELSE 0

\* Reader.ReadLine on the unread bytes `rest` of a file ending with `end`,
\* the first newline being at k (0: none): the line (at most a buffer of
\* it), the error, and what is left unread.
ReadLineAt(rest, end, k) ==
    IF k > 0 /\ k <= BufSize
    THEN [line |-> SubSeq(rest, 1, k - 1), err |-> "nil",
          rest |-> SubSeq(rest, k + 1, Len(rest))]
    ELSE IF Len(rest) >= BufSize
    THEN \* ErrBufferFull: isPrefix = true, no error
         [line |-> SubSeq(rest, 1, BufSize), err |-> "nil",
          rest |-> SubSeq(rest, BufSize + 1, Len(rest))]
    ELSE IF Len(rest) = 0
    THEN [line |-> <<>>, err |-> end, rest |-> <<>>]
    ELSE [line |-> rest, err |-> "nil", rest |-> <<>>]

ReadLine(rest, end) == ReadLineAt(rest, end, FirstNL(rest))

RECURSIVE SkipLines(_, _, _)
\* the loop of lineInQuestion (lines 282-287): i reads, stopping at the
\* first error; r is the state of the reader
SkipLines(r, end, i) ==
    IF i <= 0 \/ r.err # "nil" THEN r
    ELSE SkipLines(ReadLine(r.rest, end), end, i - 1)

\* lines 289-298: the read of the line in question, r being its result
TargetLine(r) ==
    IF r.err # "nil"
    THEN IF r.err = "EOF" THEN [line |-> <<>>, err |-> "nil"]
         ELSE [line |-> <<>>, err |-> r.err]
    ELSE [line |-> r.line, err |-> "nil"]

\* lines 282-298, `skipped` being the reader after the skipping loop
ReadTarget(skipped, end) ==
    IF skipped.err # "nil" THEN [line |-> <<>>, err |-> skipped.err]
    ELSE TargetLine(ReadLine(skipped.rest, end))

ReadFile(file, line) ==
    IF ~file.exists THEN [line |-> <<>>, err |-> "ENOENT"]
    ELSE ReadTarget(SkipLines([line |-> <<>>, err |-> "nil", rest |-> file.data],
                              file.end, line - 1),
                    file.end)

lineInQuestion(loc, files) == ReadFile(files[loc.FilePath], loc.Line)

\* ---------------------------------------------------------- AnnotateLocation
\* lines 215-232: the writes made to the sink, in order, and the error
\* returned, r being the result of lineInQuestion
AnnotateLines(loc, r, prefix) ==
    IF r.err # "nil" THEN [out |-> <<>>, err |-> r.err, opened |-> TRUE]
    ELSE [out |-> << prefix \o r.line \o <<NL>>,
                    Repeat(SP, Len(prefix) + loc.Col - 1)
                        \o <<ESC, "[", "3", "1", "m">> \o Repeat("^", loc.Length)
                        \o <<ESC, "[", "0", "m", NL>> >>,
          err |-> "nil", opened |-> TRUE]

\* AnnotateLocation without its guard for an unavailable location
AnnotateLocationUnguarded(loc, files) ==
    AnnotateLines(loc, lineInQuestion(loc, files), Lineno4(loc.Line) \o <<"|", SP>>)

AnnotateLocation(loc, files) ==
    IF loc.Line = 0 THEN [out |-> <<>>, err |-> "nil", opened |-> FALSE]
    ELSE AnnotateLines(loc, lineInQuestion(loc, files), Lineno4(loc.Line) \o <<"|", SP>>)

\* ------------------------------------------------------------------- text
\* "parse error: "
TxtParseError ==
    << "p", "a", "r", "s", "e", " ", "e", "r", "r", "o", "r", ":", " " >>
\* "reference points to unknown tag '"
TxtUnknownTagRef ==
    << "r", "e", "f", "e", "r", "e", "n", "c", "e", " ", "p", "o", "i", "n", "t", "s",
       " ", "t", "o", " ", "u", "n", "k", "n", "o", "w", "n", " ", "t", "a", "g", " ", "'" >>
\* "unknown tag '"
TxtUnknownTag ==
    << "u", "n", "k", "n", "o", "w", "n", " ", "t", "a", "g", " ", "'" >>
\* "ambiguous target for tag '"
TxtAmbiguous ==
    << "a", "m", "b", "i", "g", "u", "o", "u", "s", " ", "t", "a", "r", "g", "e", "t",
       " ", "f", "o", "r", " ", "t", "a", "g", " ", "'" >>
\* "undefined function \"
TxtUndefined ==
    << "u", "n", "d", "e", "f", "i", "n", "e", "d", " ", "f", "u", "n", "c", "t", "i",
       "o", "n", " ", "\\" >>
\* "function \"
TxtFunction ==
    << "f", "u", "n", "c", "t", "i", "o", "n", " ", "\\" >>
\* " returned an error:"
TxtReturned ==
    << " ", "r", "e", "t", "u", "r", "n", "e", "d", " ", "a", "n", " ", "e", "r", "r",
       "o", "r", ":" >>
\* "the same tag was defined in the following locations:"
TxtSameTag ==
    << "t", "h", "e", " ", "s", "a", "m", "e", " ", "t", "a", "g", " ", "w", "a", "s",
       " ", "d", "e", "f", "i", "n", "e", "d", " ", "i", "n", " ", "t", "h", "e", " ",
       "f", "o", "l", "l", "o", "w", "i", "n", "g", " ", "l", "o", "c", "a", "t", "i",
       "o", "n", "s", ":" >>
\* "one of these must be changed."
TxtOneOfThese ==
    << "o", "n", "e", " ", "o", "f", " ", "t", "h", "e", "s", "e", " ", "m", "u", "s",
       "t", " ", "b", "e", " ", "c", "h", "a", "n", "g", "e", "d", "." >>
\* "error: "
TxtError ==
    << "e", "r", "r", "o", "r", ":", " " >>
\* "failed to render error page: "
TxtFailedToRender ==
    << "f", "a", "i", "l", "e", "d", " ", "t", "o", " ", "r", "e", "n", "d", "e", "r",
       " ", "e", "r", "r", "o", "r", " ", "p", "a", "g", "e", ":", " " >>
\* "(MISSING)"
TxtMissing ==
    << "(", "M", "I", "S", "S", "I", "N", "G", ")" >>
\* "%!(NOVERB)"
TxtNoVerb ==
    << "%", "!", "(", "N", "O", "V", "E", "R", "B", ")" >>

\* -------------------------------------------------------------------- fmt
FmtFlags == {SP, "+", "-", "#", "0"}
FmtDigits == {"0", "1", "2", "3", "4", "5", "6", "7", "8", "9"}

RECURSIVE SkipFlags(_, _)
\* the index of the verb of the directive whose flags and width start at j
SkipFlags(s, j) ==
    IF j <= Len(s) /\ s[j] \in (FmtFlags \cup FmtDigits) THEN SkipFlags(s, j + 1) ELSE j

RECURSIVE FormatFrom(_, _)
FormatFrom(s, i) ==
    IF i > Len(s) THEN <<>>
    ELSE IF s[i] # PCT THEN <<s[i]>> \o FormatFrom(s, i + 1)
    ELSE LET j == SkipFlags(s, i + 1)
         IN  IF j > Len(s) THEN TxtNoVerb
             ELSE IF s[j] = PCT THEN <<PCT>> \o FormatFrom(s, j + 1)
             ELSE <<PCT, "!", s[j]>> \o TxtMissing \o FormatFrom(s, j + 1)

\* fmt.Fprintf(out, s) with no operands: s is the format, so each directive
\* in it is expanded ("%%" to "%", "%x" to "%!x(MISSING)")
Fprintf0(s) == FormatFrom(s, 1)

\* ------------------------------------------------------------- diagnostics
Kinds == {"ParseError", "UnknownTagError", "AmbiguousReferenceError",
          "UndefinedFunctionError", "FailedFunctionError"}

Diag(k, l, n, e, ds) == [kind |-> k, loc |-> l, name |-> n, err |-> e, defs |-> ds]

\* the one-line message of each kind
Error(d) ==
    CASE d.kind = "ParseError" -> d.err
      [] d.kind = "UnknownTagError" -> TxtUnknownTag \o d.name \o <<"'">>
      [] d.kind = "AmbiguousReferenceError" -> TxtAmbiguous \o d.name \o <<"'">>
      [] d.kind = "UndefinedFunctionError" -> TxtUndefined \o d.name
      [] d.kind = "FailedFunctionError" ->
             TxtFunction \o d.name \o TxtReturned \o <<SP>> \o d.err
      [] OTHER -> d.err

\* loc.Annotate(msg, args...), `text` being fmt.Sprintf(msg, args...)
Annotate(loc, text) ==
    IF loc.Line = 0 THEN loc.FilePath \o <<":", SP>> \o text
    ELSE loc.FilePath \o <<":">> \o Itoa(loc.Line) \o <<":", SP>> \o text

\* fmt.Sprintf(msg, args...) of the first line each kind's PrettyPrint writes
FirstLine(d) ==
    CASE d.kind = "ParseError" -> TxtParseError \o d.err \o <<NL, NL>>
      [] d.kind = "UnknownTagError" ->
             TxtUnknownTagRef \o d.name \o <<"'", ":", NL, NL>>
      [] d.kind = "AmbiguousReferenceError" -> Error(d) \o <<":", NL, NL>>
      [] d.kind = "UndefinedFunctionError" -> Error(d) \o <<":", NL, NL>>
      [] d.kind = "FailedFunctionError" ->
             TxtFunction \o d.name \o TxtReturned \o <<NL, NL>>

RECURSIVE PrefixLines(_, _)
\* textio.PrefixWriter: the prefix before every complete line written
\* through it; an unfinished last line stays in its buffer
PrefixLines(prefix, w) ==
    LET k == FirstNL(w)
    IN  IF k = 0 THEN <<>>
        ELSE prefix \o SubSeq(w, 1, k) \o PrefixLines(prefix, SubSeq(w, k + 1, Len(w)))

PrefixWriter(prefix, writes) == [i \in 1..Len(writes) |-> PrefixLines(prefix, writes[i])]

RECURSIVE DefinedWritesReversed(_, _)
\* the loop over DefinedLocations taking the last entry first
DefinedWritesReversed(defs, files) ==
    IF defs = <<>> THEN <<>>
    ELSE DefinedWritesReversed(Tail(defs), files)
             \o << <<"-", SP>> \o Head(defs).FilePath \o <<":", NL>> >>
             \o PrefixWriter(<<SP, SP>>, AnnotateLocation(Head(defs), files).out)

RECURSIVE DefinedWrites(_, _)
\* the loop over DefinedLocations of AmbiguousReferenceError.PrettyPrint
DefinedWrites(defs, files) ==
    IF defs = <<>> THEN <<>>
    ELSE << <<"-", SP>> \o Head(defs).FilePath \o <<":", NL>> >>
             \o PrefixWriter(<<SP, SP>>, AnnotateLocation(Head(defs), files).out)
             \o DefinedWrites(Tail(defs), files)

\* the writes PrettyPrint makes to its sink, in order
PrettyPrint(d, files) ==
    LET first == << Fprintf0(Annotate(d.loc, FirstLine(d))) >>
        annotation == AnnotateLocation(d.loc, files).out
    IN  CASE d.kind = "AmbiguousReferenceError" ->
                 first \o annotation \o << TxtSameTag \o <<NL, NL>> >>
                     \o DefinedWrites(d.defs, files) \o << TxtOneOfThese \o <<NL>> >>
          [] d.kind = "FailedFunctionError" ->
                 first \o annotation \o << TxtError \o d.err \o <<NL>> >>
          [] OTHER -> first \o annotation

\* --------------------------------------------------------------- templates
TemplateNames ==
    {"page.tmpl", "annotated-line.tmpl", "parse-error.tmpl", "unknown-tag.tmpl",
     "ambiguous-reference.tmpl", "undefined-function.tmpl", "function-error.tmpl"}

KindTemplate(k) ==
    CASE k = "ParseError" -> "parse-error.tmpl"
      [] k = "UnknownTagError" -> "unknown-tag.tmpl"
      [] k = "AmbiguousReferenceError" -> "ambiguous-reference.tmpl"
      [] k = "UndefinedFunctionError" -> "undefined-function.tmpl"
      [] k = "FailedFunctionError" -> "function-error.tmpl"

\* an asset bundle: each asset's name with "ok", "badinfo" (AssetInfo fails)
\* or "badparse" (its content does not parse)
FullBundle == [t \in TemplateNames |-> "ok"]

Bundles ==
    {FullBundle}
        \cup {[t \in TemplateNames \ {m} |-> "ok"] : m \in TemplateNames}
        \cup {[FullBundle EXCEPT ![m] = "badparse"] : m \in {"page.tmpl", "unknown-tag.tmpl"}}
        \cup {[FullBundle EXCEPT !["function-error.tmpl"] = "badinfo"]}

\* init's loop over errhtml.AssetNames(): the registry, or the panic
InitRegistry(b) ==
    IF \E t \in DOMAIN b : b[t] # "ok"
    THEN [fatal |-> TRUE, registry |-> {}]
    ELSE [fatal |-> FALSE, registry |-> DOMAIN b]

\* errorTmpl.Lookup(name) is nil when the name was never registered
Lookup(registry, name) == name \in registry

Panicked(r) == r \in {"panic:bounds", "panic:nil"}

\* ------------------------------------------------------------ AnnotatedHTML
NoView == [set |-> FALSE, FilePath |-> <<>>, EOF |-> FALSE, Lineno |-> <<>>,
           Prefix |-> <<>>, Annotated |-> <<>>, Suffix |-> <<>>]

NoRead == [line |-> <<>>, err |-> "none"]

\* the AnnotationData built at lines 253-267, or the slicing panic
AnnotationDataOf(loc, line, offset, fits) ==
    IF fits /\ (offset < 0 \/ offset > offset + loc.Length
                    \/ offset + loc.Length > Len(line))
    THEN [panic |-> TRUE, data |-> NoView]
    ELSE [panic |-> FALSE,
          data |-> [set |-> TRUE,
                    FilePath |-> loc.FilePath,
                    EOF |-> (line = <<>>),
                    Lineno |-> Lineno4(loc.Line),
                    Prefix |-> IF fits THEN Slice(line, 0, offset) ELSE <<>>,
                    Annotated |-> IF fits THEN Slice(line, offset, offset + loc.Length)
                                  ELSE <<>>,
                    Suffix |-> IF fits THEN Slice(line, offset + loc.Length, Len(line))
                               ELSE <<>>]]

AnnotationData(loc, line) ==
    AnnotationDataOf(loc, line, loc.Col - 1, Len(line) >= loc.Col - 1 + loc.Length)

\* line 269: the lookup and execution of annotated-line.tmpl
ExecuteAnnotated(registry, r, a) ==
    IF a.panic
    THEN [html |-> <<>>, err |-> "panic:bounds", view |-> NoView, read |-> r]
    ELSE IF ~Lookup(registry, "annotated-line.tmpl")
    THEN [html |-> <<>>, err |-> "panic:nil", view |-> a.data, read |-> r]
    ELSE [html |-> << [tmpl |-> "annotated-line.tmpl", data |-> a.data] >>,
          err |-> "nil", view |-> a.data, read |-> r]

\* lines 248-269, r being the result of lineInQuestion
AnnotatedLine(loc, registry, r) ==
    IF r.err # "nil"
    THEN [html |-> <<>>, err |-> r.err, view |-> NoView, read |-> r]
    ELSE ExecuteAnnotated(registry, r, AnnotationData(loc, r.line))

\* what AnnotatedHTML writes (the executions of annotated-line.tmpl, each
\* with its data), what it returns, and the view it built
AnnotatedHTML(loc, files, registry) ==
    IF loc.Line = 0
    THEN [html |-> <<>>, err |-> "nil", view |-> NoView, read |-> NoRead]
    ELSE AnnotatedLine(loc, registry, lineInQuestion(loc, files))

\* ---------------------------------------------------- template execution
\* A panic inside a function called by a template: text/template of Go 1.12
\* and later returns it as the execution's error, earlier ones let it go on.
FuncResult(r, recovers) ==
    IF Panicked(r) /\ recovers THEN "recovered" ELSE r

Mark(t) == [tmpl |-> t, data |-> NoView]

RECURSIVE Concat(_)
Concat(ss) == IF ss = <<>> THEN <<>> ELSE Head(ss) \o Concat(Tail(ss))

FirstFailure(res) ==
    IF \A i \in 1..Len(res) : res[i].err = "nil" THEN Len(res) + 1
    ELSE CHOOSE i \in 1..Len(res) :
             res[i].err # "nil" /\ \A j \in 1..(i - 1) : res[j].err = "nil"

\* the outcome of the calls res of the "annotate" template function, made in
\* order and stopping at the first that fails, the k-th
AnnotateUpTo(res, k, recovers) ==
    [html |-> Concat([i \in 1..(k - 1) |-> res[i].html]),
     err |-> IF k > Len(res) THEN "nil" ELSE FuncResult(res[k].err, recovers)]

AnnotateCalls(res, recovers) == AnnotateUpTo(res, FirstFailure(res), recovers)

\* the calls of "annotate" a kind's template makes: one per location
AnnotateAll(locs, files, registry, recovers) ==
    AnnotateCalls([i \in 1..Len(locs) |-> AnnotatedHTML(locs[i], files, registry)],
                  recovers)

KindOutput(k, a) == [html |-> <<Mark(KindTemplate(k))>> \o a.html, err |-> a.err]

\* Execute of a kind's template: it annotates the diagnostic's location and,
\* for an ambiguous reference, each defined location
ExecuteKind(d, files, registry, recovers) ==
    KindOutput(d.kind,
               AnnotateAll(IF d.kind = "AmbiguousReferenceError" THEN <<d.loc>> \o d.defs
                           ELSE <<d.loc>>,
                           files, registry, recovers))

PrettyHTML(d, files, registry, recovers) ==
    IF ~Lookup(registry, KindTemplate(d.kind))
    THEN [html |-> <<>>, err |-> "panic:nil"]
    ELSE ExecuteKind(d, files, registry, recovers)

\* lines 27-31: the "error" function hands on PrettyHTML's error, or its buffer
Buffered(r) == IF r.err # "nil" THEN [html |-> <<>>, err |-> r.err] ELSE r

\* the "error" template function
ErrorFunc(e, files, registry, recovers) ==
    IF e.kind \in Kinds
    THEN Buffered(PrettyHTML(e, files, registry, recovers))
    ELSE [html |-> <<Mark("raw-error")>>, err |-> "nil"]

PageOutput(r, x) ==
    IF x # "nil" THEN [html |-> <<Mark("page.tmpl")>>, err |-> x]
    ELSE [html |-> <<Mark("page.tmpl")>> \o r.html, err |-> "nil"]

PageResult(r, recovers) == PageOutput(r, FuncResult(r.err, recovers))

\* Execute of page.tmpl, which calls the "error" function on its operand
ExecutePage(e, files, registry, recovers) ==
    PageResult(ErrorFunc(e, files, registry, recovers), recovers)

\* lines 68-70: the fallback text after a failed execution r
Fallback(r) ==
    IF Panicked(r.err) THEN [html |-> r.html, out |-> <<>>, ret |-> r.err]
    ELSE IF r.err # "nil"
    THEN [html |-> r.html, out |-> << TxtFailedToRender \o <<r.err>> >>,
          ret |-> "returned"]
    ELSE [html |-> r.html, out |-> <<>>, ret |-> "returned"]

\* ErrorPage: what reaches the response (html, then the fallback text in out)
\* and whether the call returned or panicked
ErrorPage(e, files, registry, recovers) ==
    IF ~Lookup(registry, "page.tmpl")
    THEN [html |-> <<>>, out |-> <<>>, ret |-> "panic:nil"]
    ELSE Fallback(ExecutePage(e, files, registry, recovers))

\* ------------------------------------------------------------------ inputs
Texts == {<<"t">>, <<PCT, "t">>}

DefinedLocs ==
    {Loc(<<"f">>, 1, 1, 1), Loc(<<PCT, "f">>, 2, 1, 0), Loc(<<"f">>, 0, 0, 0)}

DefinedLists == UNION {[1..n -> DefinedLocs] : n \in 0..MaxDefined}

\* the locations diagnostics are raised at
DiagLocations == {l \in Locations : l.Col <= 1 /\ l.Length = 1}

Diagnostics ==
    {Diag(k, l, n, <<>>, <<>>) :
        k \in {"UnknownTagError", "UndefinedFunctionError"}, l \in DiagLocations, n \in Texts}
      \cup {Diag("ParseError", l, <<>>, e, <<>>) : l \in DiagLocations, e \in Texts}
      \cup {Diag("FailedFunctionError", l, n, e, <<>>) :
               l \in DiagLocations, n \in Texts, e \in Texts}
      \cup {Diag("AmbiguousReferenceError", l, n, <<>>, ds) :
               l \in DiagLocations, n \in Texts, ds \in DefinedLists}

\* an error that is no PrettyError
RawErrors == {Diag("raw", Loc(<<>>, 0, 0, 0), <<>>, e, <<>>) : e \in Texts}

LocArg(l) == Diag("loc", l, <<>>, <<>>, <<>>)

DiagFileSystems ==
    [Paths -> {NoFile, File(<<"a", NL, NL, "a">>, "EOF")}]

VARIABLES pc, bundle, errorTmpl, op, arg, fs, out, html, ret, read, view

vars == <<pc, bundle, errorTmpl, op, arg, fs, out, html, ret, read, view>>

Init ==
    /\ pc = "init"
    /\ bundle \in Bundles
    /\ errorTmpl = {}
    /\ op = "none"
    /\ arg = LocArg(Loc(<<>>, 0, 0, 0))
    /\ fs = [p \in Paths |-> NoFile]
    /\ out = <<>>
    /\ html = <<>>
    /\ ret = "none"
    /\ read = NoRead
    /\ view = NoView

\* func init(): registers every asset of the bundle, or panics
init ==
    /\ pc = "init"
    /\ LET r == InitRegistry(bundle)
       IN  /\ pc' = IF r.fatal THEN "fatal" ELSE "ready"
           /\ errorTmpl' = r.registry
    /\ UNCHANGED <<bundle, op, arg, fs, out, html, ret, read, view>>

\* lineInQuestion reads only the path and the line of its location, and its
\* two callers call it only with a line of 1 or more
CallLineInQuestion ==
    /\ pc = "ready"
    /\ pc' = "called"
    /\ \E l \in {x \in Locations : x.Line >= 1 /\ x.Col = 1 /\ x.Length = 0},
          files \in FileSystems :
        LET r == lineInQuestion(l, files)
        IN  /\ op' = "lineInQuestion"
            /\ arg' = LocArg(l)
            /\ fs' = files
            /\ out' = <<>>
            /\ html' = <<>>
            /\ ret' = r.err
            /\ read' = r
            /\ view' = NoView
    /\ UNCHANGED <<bundle, errorTmpl>>

CallAnnotateLocation ==
    /\ pc = "ready"
    /\ pc' = "called"
    /\ \E l \in Locations, files \in FileSystems :
        LET r == AnnotateLocation(l, files)
        IN  /\ op' = "AnnotateLocation"
            /\ arg' = LocArg(l)
            /\ fs' = files
            /\ out' = r.out
            /\ html' = <<>>
            /\ ret' = r.err
            /\ read' = IF r.opened THEN lineInQuestion(l, files) ELSE NoRead
            /\ view' = NoView
    /\ UNCHANGED <<bundle, errorTmpl>>

CallAnnotatedHTML ==
    /\ pc = "ready"
    /\ pc' = "called"
    /\ \E l \in Locations, files \in FileSystems :
        LET r == AnnotatedHTML(l, files, errorTmpl)
        IN  /\ op' = "AnnotatedHTML"
            /\ arg' = LocArg(l)
            /\ fs' = files
            /\ out' = <<>>
            /\ html' = r.html
            /\ ret' = r.err
            /\ read' = r.read
            /\ view' = r.view
    /\ UNCHANGED <<bundle, errorTmpl>>

CallPrettyPrint ==
    /\ pc = "ready"
    /\ pc' = "called"
    /\ \E d \in Diagnostics, files \in DiagFileSystems :
        /\ op' = "PrettyPrint"
        /\ arg' = d
        /\ fs' = files
        /\ out' = PrettyPrint(d, files)
        /\ html' = <<>>
        /\ ret' = "none"
        /\ read' = NoRead
        /\ view' = NoView
    /\ UNCHANGED <<bundle, errorTmpl>>

CallPrettyHTML ==
    /\ pc = "ready"
    /\ pc' = "called"
    /\ \E d \in Diagnostics, files \in DiagFileSystems, recovers \in BOOLEAN :
        LET r == PrettyHTML(d, files, errorTmpl, recovers)
        IN  /\ op' = "PrettyHTML"
            /\ arg' = d
            /\ fs' = files
            /\ out' = <<>>
            /\ html' = r.html
            /\ ret' = r.err
            /\ read' = NoRead
            /\ view' = NoView
    /\ UNCHANGED <<bundle, errorTmpl>>

CallErrorPage ==
    /\ pc = "ready"
    /\ pc' = "called"
    /\ \E e \in Diagnostics \cup RawErrors, files \in DiagFileSystems, recovers \in BOOLEAN :
        LET r == ErrorPage(e, files, errorTmpl, recovers)
        IN  /\ op' = "ErrorPage"
            /\ arg' = e
            /\ fs' = files
            /\ out' = r.out
            /\ html' = r.html
            /\ ret' = r.ret
            /\ read' = NoRead
            /\ view' = NoView
    /\ UNCHANGED <<bundle, errorTmpl>>

\* the caller takes the result; the process is ready for the next call
Return ==
    /\ pc = "called"
    /\ pc' = "ready"
    /\ op' = "none"
    /\ arg' = LocArg(Loc(<<>>, 0, 0, 0))
    /\ fs' = [p \in Paths |-> NoFile]
    /\ out' = <<>>
    /\ html' = <<>>
    /\ ret' = "none"
    /\ read' = NoRead
    /\ view' = NoView
    /\ UNCHANGED <<bundle, errorTmpl>>

Next ==
    \/ init
    \/ CallLineInQuestion
    \/ CallAnnotateLocation
    \/ CallAnnotatedHTML
    \/ CallPrettyPrint
    \/ CallPrettyHTML
    \/ CallErrorPage
    \/ Return

Spec == Init /\ [][Next]_vars

\* ------------------------------------------------------------------ claims
RECURSIVE LinesOf(_)
\* the newline-delimited lines of a file's bytes
LinesOf(d) ==
    IF d = <<>> THEN <<>>
    ELSE IF FirstNL(d) = 0 THEN <<d>>
    ELSE <<SubSeq(d, 1, FirstNL(d) - 1)>> \o LinesOf(SubSeq(d, FirstNL(d) + 1, Len(d)))

LineCount(d) == Len(LinesOf(d))

\* every line, with its newline, fits the reader's buffer
AllLinesFit(d) == \A i \in 1..LineCount(d) : Len(LinesOf(d)[i]) < BufSize

\* the file of the current call's location
TheFile == fs[arg.loc.FilePath]

Readable == TheFile.exists /\ TheFile.end = "EOF"

\* C1: for a readable file of N lines and a requested line L > N,
\* lineInQuestion returns the empty "no content" result with no error, and
\* the view AnnotatedHTML builds has EOF = true (stated for files whose
\* lines fit the reader's buffer).
C1_PastEndIsNoContent ==
    (/\ op \in {"lineInQuestion", "AnnotatedHTML"}
     /\ arg.loc.Line >= 1
     /\ Readable
     /\ AllLinesFit(TheFile.data)
     /\ arg.loc.Line > LineCount(TheFile.data))
        => /\ read = [line |-> <<>>, err |-> "nil"]
           /\ (op = "AnnotatedHTML" /\ ret = "nil" => view.EOF)

\* C2: when the source file of a location with line >= 1 cannot be opened,
\* the renderer's caller receives an explicit error, from the plain
\* rendering as from the hypertext rendering.
C2_ReadFailurePropagates ==
    (/\ op \in {"PrettyPrint", "PrettyHTML"}
     /\ arg.loc.Line >= 1
     /\ ~TheFile.exists)
        => ret \notin {"none", "nil"}

\* C3: for every line text, column and length of a location with line >= 1,
\* AnnotatedHTML never faults on a slice: when column-1+length <= len(line)
\* the view holds the three substrings, otherwise three empty strings.
C3_AnnotationNeverFaults ==
    (op = "AnnotatedHTML" /\ arg.loc.Line >= 1 /\ read.err = "nil")
        => /\ ret # "panic:bounds"
           /\ view.set
           /\ IF arg.loc.Col - 1 + arg.loc.Length <= Len(read.line)
              THEN /\ view.Prefix = SubSeq(read.line, 1, arg.loc.Col - 1)
                   /\ view.Annotated =
                          SubSeq(read.line, arg.loc.Col, arg.loc.Col - 1 + arg.loc.Length)
                   /\ view.Suffix =
                          SubSeq(read.line, arg.loc.Col + arg.loc.Length, Len(read.line))
              ELSE view.Prefix = <<>> /\ view.Annotated = <<>> /\ view.Suffix = <<>>

\* the number of writes a kind's PrettyPrint makes besides the annotation of
\* its location and of its defined locations
OwnWrites(k) ==
    CASE k = "AmbiguousReferenceError" -> 3
      [] k = "FailedFunctionError" -> 2
      [] OTHER -> 1

\* C4: for a location whose line is 0, AnnotateLocation writes nothing,
\* returns no error and does not open the file, whatever the path, column
\* and length; AnnotatedHTML likewise writes nothing and executes no
\* template; so the plain narrative of every kind raised there holds no
\* annotation of that location.
C4_UnavailableLocationWritesNothing ==
    /\ (op \in {"AnnotateLocation", "AnnotatedHTML"} /\ arg.loc.Line = 0)
           => out = <<>> /\ html = <<>> /\ ret = "nil" /\ read = NoRead
    /\ (op = "PrettyPrint" /\ arg.loc.Line = 0 /\ arg.defs = <<>>)
           => Len(out) = OwnWrites(arg.kind)

C4_Witness ==
    /\ op = "AnnotateLocation"
    /\ arg.loc.Line = 0
    /\ arg.loc.Col = 2
    /\ arg.loc.Length = 1
    /\ TheFile.exists
    /\ TheFile.data # <<>>
    /\ out = <<>>

\* C5: ErrorPage never propagates a failure to its caller: when the page
\* template's execution fails it writes "failed to render error page: "
\* and the error, and returns; when it succeeds it writes no fallback text.
C5_ErrorPageNeverPropagates ==
    op = "ErrorPage"
        => /\ ret = "returned"
           /\ out \in {<<>>} \cup {<<TxtFailedToRender \o <<e>>>> :
                                      e \in {"ENOENT", "EOF", "EIO", "recovered"}}

\* C6: after a start-up that did not panic, every required template is in
\* the registry, and no render call looks up a template that is absent.
C6_StartUpChecksTemplates ==
    /\ pc \in {"ready", "called"} => TemplateNames \subseteq errorTmpl
    /\ ret # "panic:nil"

\* a string free of the percent sign
Plain(str) == \A i \in 1..Len(str) : str[i] # PCT

\* one entry of the list of defined locations: its path line, then its own
\* annotation, each line of it behind two spaces
EntryBlock(l) ==
    << <<"-", SP>> \o l.FilePath \o <<":", NL>> >>
        \o [i \in 1..Len(AnnotateLocation(l, fs).out) |->
               <<SP, SP>> \o AnnotateLocation(l, fs).out[i]]

\* C7: the plain rendering of an AmbiguousReferenceError is, in this order:
\* the prefixed summary line, the annotation of the primary location, the
\* line "the same tag was defined in the following locations:", one block
\* per entry of DefinedLocations in the order supplied, and the line "one of
\* these must be changed."; no entry is skipped, duplicated or reordered.
C7_DefinedLocationsInOrder ==
    (op = "PrettyPrint" /\ arg.kind = "AmbiguousReferenceError")
        => /\ Len(out) >= 1
           /\ (Plain(arg.loc.FilePath) /\ Plain(arg.name))
                  => out[1] = Annotate(arg.loc, Error(arg) \o <<":", NL, NL>>)
           /\ Tail(out) =
                  AnnotateLocation(arg.loc, fs).out
                      \o << TxtSameTag \o <<NL, NL>> >>
                      \o Concat([i \in 1..Len(arg.defs) |-> EntryBlock(arg.defs[i])])
                      \o << TxtOneOfThese \o <<NL>> >>

C7_Witness ==
    /\ op = "PrettyPrint"
    /\ arg.kind = "AmbiguousReferenceError"
    /\ Len(arg.defs) = 2
    /\ arg.defs[1].FilePath # arg.defs[2].FilePath
    /\ AnnotateLocation(arg.defs[1], fs).out # <<>>
    /\ AnnotateLocation(arg.defs[2], fs).out # <<>>
    /\ Len(out) = 9

\* C8: the view's EOF flag is false for a requested line that exists in the
\* file, a blank line included (stated for files whose lines fit the
\* reader's buffer).
C8_EOFOnlyPastLastLine ==
    (/\ op = "AnnotatedHTML"
     /\ view.set
     /\ Readable
     /\ AllLinesFit(TheFile.data)
     /\ arg.loc.Line \in 1..LineCount(TheFile.data))
        => ~view.EOF

\* C9: for every line number L between 1 and the file's line count,
\* lineInQuestion returns the whole L-th line without its newline, whatever
\* the lengths of that line and of the lines before it.
C9_WholeLineReturned ==
    (/\ op = "lineInQuestion"
     /\ TheFile.exists
     /\ arg.loc.Line \in 1..LineCount(TheFile.data))
        => read = [line |-> LinesOf(TheFile.data)[arg.loc.Line], err |-> "nil"]

\* C10: the first write of every kind's PrettyPrint is the location prefix
\* followed by the kind's first line, with the path, the name and the nested
\* message reproduced as they are, the percent sign included.
C10_FirstLineVerbatim ==
    op = "PrettyPrint"
        => Len(out) >= 1 /\ out[1] = Annotate(arg.loc, FirstLine(arg))

=============================================================================
